---- MODULE Spec2Model ----
(***************************************************************************)
(* Authoring-time surface of the task library                              *)
(* (src/src/prefect/utilities/tasks.py): the group(...) and tags(...)      *)
(* annotation scopes, the coercion dispatcher as_task and the curried      *)
(* decorator task, over the ambient context (prefect.context) and the node *)
(* constructors, both of which live outside this file.                     *)
(*                                                                         *)
(* Python values are modelled as follows.                                  *)
(*   str        a sequence of one-character strings ("a/b" is             *)
(*              <<"a", "/", "b">>, "" is <<>>)                             *)
(*   None       the sentinel None below                                    *)
(*   set        an object of the heap, named by its id; two names may      *)
(*              alias one object, so an in-place update is visible through *)
(*              every alias                                                *)
(*   keywords   a set of <<key, value>> pairs                              *)
(***************************************************************************)
EXTENDS Integers, Sequences, FiniteSets, TLC

VARIABLES
    ctx,        \* prefect.context: the stack of overlays (innermost last)
    heap,       \* the set objects: id -> set of tags
    scopes,     \* the open group/tags generator frames (innermost last)
    nodes,      \* the tasks constructed so far, in construction order
    exc,        \* the exception in flight: "none", "block" or "ctor"
    decorator,  \* the partial application returned by task with keywords only
    last,       \* the latest call: its name, arguments and returned node
    tctx,       \* two-thread run, one overlay stack shared by the threads
    lctx,       \* two-thread run, one overlay stack per thread
    tscopes,    \* two-thread run, each thread's open scopes
    tnodes,     \* two-thread run, the tasks constructed
    tcalls,     \* two-thread run, the calls each thread has made
    tlast       \* two-thread run, the latest call

vars == <<ctx, heap, scopes, nodes, exc, decorator, last,
          tctx, lctx, tscopes, tnodes, tcalls, tlast>>
seqVars == <<ctx, heap, scopes, nodes, exc, decorator, last>>
thrVars == <<tctx, lctx, tscopes, tnodes, tcalls, tlast>>

----------------------------------------------------------------------------
(* Bounds *)

MaxDepth == 2       \* open scopes at one time
MaxNodes == 2       \* tasks constructed in one run
MaxTagArgs == 2     \* positional arguments of one tags(...) call
MaxCalls == 2       \* calls one thread makes in a two-thread run

----------------------------------------------------------------------------
(* Input domains *)

Names == {<< >>, <<"a">>, <<"b">>}
TagVals == {"x", "y"}
TagArgs == UNION {[1..n -> TagVals] : n \in 0..MaxTagArgs}
Opts == {{}, {<<"name", "n">>}}
None == <<"None">>
Ids == 1..(MaxDepth + MaxNodes)

Range(s) == {s[i] : i \in DOMAIN s}
Max(S) == CHOOSE m \in S : \A k \in S : k <= m
Min(S) == CHOOSE m \in S : \A k \in S : m <= k
IsPrefix(p, s) == Len(p) <= Len(s) /\ SubSeq(s, 1, Len(p)) = p

(* A value handed to as_task or task, by what isinstance and callable say  *)
(* of it.  A task is callable (the docstrings call add(1, 5)); "bad" marks *)
(* a value the node constructor or binder rejects.                         *)
TaskValue(i) ==
    [isTask |-> TRUE, ref |-> i, coll |-> "none", callable |-> TRUE, bad |-> FALSE]
PlainValues ==
    {v \in [isTask : {FALSE}, ref : {0},
             coll : {"list", "tuple", "set", "dict", "none"},
             callable : BOOLEAN, bad : BOOLEAN] :
        v.callable => v.coll \in {"dict", "none"}}
Functions == {v \in PlainValues : v.coll = "none" /\ v.callable}
NoValue ==
    [isTask |-> FALSE, ref |-> 0, coll |-> "none", callable |-> FALSE, bad |-> FALSE]

----------------------------------------------------------------------------
(* The ambient context (prefect.context) *)

ContextHas(c, key) == \E i \in 1..Len(c) : key \in DOMAIN c[i]

ContextGet(c, key, default) ==
    IF ContextHas(c, key)
    THEN c[Max({i \in 1..Len(c) : key \in DOMAIN c[i]})][key]
    ELSE default

ContextEnter(c, overlay) == Append(c, overlay)

ContextExit(c) == SubSeq(c, 1, Len(c) - 1)

(* The composite view: which keys are set, the active group, and the       *)
(* contents of the active tag set.                                         *)
View(c, h) ==
    [keys  |-> {k \in {"_group", "_tags"} : ContextHas(c, k)},
     group |-> ContextGet(c, "_group", None),
     tags  |-> IF ContextHas(c, "_tags") THEN h[ContextGet(c, "_tags", 0)] ELSE {}]


----------------------------------------------------------------------------
(* The heap of set objects *)

Refs(c) == {c[i]["_tags"] : i \in {k \in 1..Len(c) : "_tags" \in DOMAIN c[k]}}

Live == Refs(ctx) \cup {nodes[i].tags : i \in 1..Len(nodes)}

(* An object nothing refers to is collected: its id is free again. *)
Collect(h, live) == [i \in DOMAIN h |-> IF i \in live THEN h[i] ELSE {}]

FreshId(live) == Min(Ids \ live)

----------------------------------------------------------------------------
(* group(name, append) *)

(* A variant that joins without testing for an active group. *)
group_name_always_join(c, name, append) ==
    IF append
    THEN ContextGet(c, "_group", << >>) \o <<"/">> \o name
    ELSE name

(* A variant that appends whatever the flag says. *)
group_name_always_append(c, name, append) ==
    LET current_group == ContextGet(c, "_group", << >>) IN
    IF current_group # << >>
    THEN current_group \o <<"/">> \o name
    ELSE name

group_name(c, name, append) ==
    IF append
    THEN LET current_group == ContextGet(c, "_group", << >>) IN
         IF current_group # << >>
         THEN current_group \o <<"/">> \o name
         ELSE name
    ELSE name

group_enter(c, name, append) ==
    ContextEnter(c, [_group |-> group_name(c, name, append)])

(* A variant without the with block: an exception thrown in at the yield   *)
(* skips the restoration.                                                  *)
group_exit_no_finally(c, path) ==
    IF path = "normal" THEN ContextExit(c) ELSE c

(* A variant whose exit clears the whole context. *)
group_exit_clears(c, path) == << >>

(* Leaving the with block of the generator, on either path: the block      *)
(* completed ("normal") or an exception was thrown in at the yield         *)
(* ("error").                                                              *)
group_exit(c, path) == ContextExit(c)

----------------------------------------------------------------------------
(* The tags scope *)

(* A variant that leaves out the update from the active tag set. *)
tags_enter_no_update(h, c, args, p) ==
    [heap |-> [h EXCEPT ![p] = Range(args)],
     ctx  |-> ContextEnter(c, [_tags |-> p])]

(* A variant that updates the active tag set in place instead of building  *)
(* a new set.                                                              *)
tags_enter_inplace(h, c, args, p) ==
    LET q == ContextGet(c, "_tags", p) IN
    [heap |-> [h EXCEPT ![q] = h[q] \cup Range(args)],
     ctx  |-> ContextEnter(c, [_tags |-> q])]

(* p is the id of the object set(tags) allocates. *)
tags_enter(h, c, args, p) ==
    LET tags_set == Range(args)
        active == IF ContextHas(c, "_tags")
                  THEN h[ContextGet(c, "_tags", 0)]
                  ELSE {}
    IN  [heap |-> [h EXCEPT ![p] = tags_set \cup active],
         ctx  |-> ContextEnter(c, [_tags |-> p])]

(* A variant that never restores the context. *)
tags_exit_no_restore(c, path) == c

tags_exit(c, path) == ContextExit(c)

----------------------------------------------------------------------------
(* The node constructors (prefect.core.Task and its subclasses) *)

(* Every constructor stamps the new task from the context; p is the id of  *)
(* the fresh set() that context.get("_tags", set()) returns when no tag    *)
(* set is active.                                                          *)
Task(variant, fn, kwargs, c, p) ==
    [variant |-> variant,
     fn      |-> fn,
     opts    |-> kwargs,
     group   |-> ContextGet(c, "_group", None),
     tags    |-> ContextGet(c, "_tags", p)]

NoTask ==
    [variant |-> "none", fn |-> NoValue, opts |-> {}, group |-> None, tags |-> 0]

(* What the program can read of a task after its construction: its stamps. *)
(* (Nothing in this file reads a task's type, function or options again;   *)
(* the call that constructed it records them in last.)                     *)
Stamps(t) == [group |-> t.group, tags |-> t.tags]

----------------------------------------------------------------------------
(* as_task(x) *)

(* A variant that tests callable before the collections. *)
as_task_branch_callable_first(x) ==
    IF x.isTask THEN "same"
    ELSE IF x.callable THEN "FunctionTask"
    ELSE IF x.coll = "list" THEN "List"
    ELSE IF x.coll = "tuple" THEN "Tuple"
    ELSE IF x.coll = "set" THEN "Set"
    ELSE IF x.coll = "dict" THEN "Dict"
    ELSE "Constant"

(* A variant that tests for a task last. *)
as_task_branch_task_last(x) ==
    IF x.coll = "list" THEN "List"
    ELSE IF x.coll = "tuple" THEN "Tuple"
    ELSE IF x.coll = "set" THEN "Set"
    ELSE IF x.coll = "dict" THEN "Dict"
    ELSE IF x.callable THEN "FunctionTask"
    ELSE IF x.isTask THEN "same"
    ELSE "Constant"

(* The branch taken: "same" returns x itself, the others name the node     *)
(* type constructed.                                                       *)
as_task_branch(x) ==
    IF x.isTask THEN "same"
    ELSE IF x.coll = "list" THEN "List"
    ELSE IF x.coll = "tuple" THEN "Tuple"
    ELSE IF x.coll = "set" THEN "Set"
    ELSE IF x.coll = "dict" THEN "Dict"
    ELSE IF x.callable THEN "FunctionTask"
    ELSE "Constant"

----------------------------------------------------------------------------
(* task, under toolz.curry *)

(* A variant that drops the keyword arguments. *)
task_ignores_kwargs(fn, task_init_kwargs, c, p) ==
    Task("FunctionTask", fn, {}, c, p)

(* The body of task: the keyword arguments go to the constructor. *)
task(fn, task_init_kwargs, c, p) ==
    Task("FunctionTask", fn, task_init_kwargs, c, p)

(* Keyword arguments given later replace those bound earlier. *)
MergeKwargs(bound, kw) ==
    kw \cup {b \in bound : ~ \E k \in kw : k[1] = b[1]}

NoDecorator == [live |-> FALSE, kw |-> {}]

----------------------------------------------------------------------------
(* The state of the two-thread runs *)

Threads == {1, 2}
TIds == 1..(2 * MaxDepth + 1)

TCall(t, op, shared, local) ==
    [thread |-> t, op |-> op, shared |-> shared, local |-> local]

ThreadsIdle ==
    /\ tctx = [ctx |-> << >>, heap |-> [i \in TIds |-> {}]]
    /\ lctx = [ctx |-> [t \in Threads |-> << >>], heap |-> [i \in TIds |-> {}]]
    /\ tscopes = [t \in Threads |-> << >>]
    /\ tnodes = << >>
    /\ tcalls = [t \in Threads |-> 0]
    /\ tlast = TCall(0, "init", TRUE, TRUE)

----------------------------------------------------------------------------
(* The single-threaded program *)

(* The record of a call: op(x, kw) returned the task nodes[ret] (0: it     *)
(* returned no task), which it constructed as new (NoTask: it constructed  *)
(* none).                                                                  *)
Call(op, x, kw, ret, new) ==
    [op |-> op, x |-> x, kw |-> kw, ret |-> ret, new |-> new]

NoCall(op) == Call(op, NoValue, {}, 0, NoTask)

Frame(kind, name, append, args) ==
    [kind |-> kind, name |-> name, append |-> append, tags |-> Range(args),
     entry |-> View(ctx, heap)]

(* The constructor call of op(x, kw), which builds the task t: it raises   *)
(* on a value it rejects and returns t otherwise.                          *)
Construct(op, x, kw, t) ==
    IF x.bad
    THEN /\ exc' = "ctor"
         /\ nodes' = nodes
         /\ last' = Call(op, x, kw, 0, NoTask)
    ELSE /\ exc' = "none"
         /\ nodes' = Append(nodes, Stamps(t))
         /\ last' = Call(op, x, kw, Len(nodes) + 1, t)

Init ==
    /\ ctx = << >>
    /\ heap = [i \in Ids |-> {}]
    /\ scopes = << >>
    /\ nodes = << >>
    /\ exc = "none"
    /\ decorator = NoDecorator
    /\ last = NoCall("init")
    /\ ThreadsIdle

(* with group(name, append): *)
GroupEnter ==
    \E name \in Names, append \in BOOLEAN :
        /\ exc = "none"
        /\ Len(scopes) < MaxDepth
        /\ ctx' = group_enter(ctx, name, append)
        /\ scopes' = Append(scopes, Frame("group", name, append, << >>))
        /\ last' = NoCall("group")
        /\ UNCHANGED <<heap, nodes, exc, decorator>>

\* with tags(args...):
TagsEnter ==
    \E args \in TagArgs :
        LET r == tags_enter(heap, ctx, args, FreshId(Live)) IN
        /\ exc = "none"
        /\ Len(scopes) < MaxDepth
        /\ ctx' = r.ctx
        /\ heap' = r.heap
        /\ scopes' = Append(scopes, Frame("tags", << >>, FALSE, args))
        /\ last' = NoCall("tags")
        /\ UNCHANGED <<nodes, exc, decorator>>

(* The innermost scope is left on the given path. *)
Leave(path) ==
    LET top == scopes[Len(scopes)]
        c == IF top.kind = "group" THEN group_exit(ctx, path)
                                   ELSE tags_exit(ctx, path)
    IN  /\ ctx' = c
        /\ heap' = Collect(heap, Refs(c) \cup {nodes[i].tags : i \in 1..Len(nodes)})
        /\ scopes' = SubSeq(scopes, 1, Len(scopes) - 1)

(* The block of the innermost scope completes. *)
ScopeExit ==
    /\ exc = "none"
    /\ scopes # << >>
    /\ Leave("normal")
    /\ last' = NoCall("exit")
    /\ UNCHANGED <<nodes, exc, decorator>>

(* The block of the innermost scope raises. *)
BlockRaise ==
    /\ exc = "none"
    /\ scopes # << >>
    /\ exc' = "block"
    /\ last' = NoCall("raise")
    /\ UNCHANGED <<ctx, heap, scopes, nodes, decorator>>

(* The exception in flight leaves the innermost scope. *)
Unwind ==
    /\ exc # "none"
    /\ scopes # << >>
    /\ Leave("error")
    /\ last' = NoCall("unwind")
    /\ UNCHANGED <<nodes, exc, decorator>>

(* An except clause around the current position handles the exception. *)
Catch ==
    /\ exc # "none"
    /\ exc' = "none"
    /\ last' = NoCall("catch")
    /\ UNCHANGED <<ctx, heap, scopes, nodes, decorator>>

AsTask ==
    \E x \in PlainValues \cup {TaskValue(i) : i \in 1..Len(nodes)} :
        /\ exc = "none"
        /\ x.isTask \/ Len(nodes) < MaxNodes
        /\ IF as_task_branch(x) = "same"
           THEN /\ nodes' = nodes
                /\ exc' = exc
                /\ last' = Call("as_task", x, {}, x.ref, NoTask)
           ELSE Construct("as_task", x, {},
                          Task(as_task_branch(x), x, {}, ctx, FreshId(Live)))
        /\ UNCHANGED <<ctx, heap, scopes, decorator>>

(* A call of the curried task: bound are the keyword arguments bound so    *)
(* far.  With the positional argument fn the function runs; without it the *)
(* call returns a new partial application.                                 *)
CurryCall(op, bound, positional, fn, kw) ==
    IF positional
    THEN /\ Len(nodes) < MaxNodes
         /\ Construct(op, fn, kw,
                      task(fn, MergeKwargs(bound, kw), ctx, FreshId(Live)))
         /\ UNCHANGED decorator
    ELSE /\ decorator' = [live |-> TRUE, kw |-> MergeKwargs(bound, kw)]
         /\ last' = Call(op, NoValue, kw, 0, NoTask)
         /\ UNCHANGED <<nodes, exc>>

(* The arguments of one call: a function or none, and keyword arguments. *)
CurryArgs ==
    {<<TRUE, fn>> : fn \in Functions} \cup {<<FALSE, NoValue>>}

(* task with and without its positional argument *)
TaskCall ==
    \E a \in CurryArgs, kw \in Opts :
        /\ exc = "none"
        /\ CurryCall("task", {}, a[1], a[2], kw)
        /\ UNCHANGED <<ctx, heap, scopes>>

(* The partial application returned by task is called. *)
DecoratorCall ==
    \E a \in CurryArgs, kw \in Opts :
        /\ exc = "none"
        /\ decorator.live
        /\ CurryCall("decorator", decorator.kw, a[1], a[2], kw)
        /\ UNCHANGED <<ctx, heap, scopes>>

Next ==
    \/ (GroupEnter /\ UNCHANGED thrVars)
    \/ (TagsEnter /\ UNCHANGED thrVars)
    \/ (ScopeExit /\ UNCHANGED thrVars)
    \/ (BlockRaise /\ UNCHANGED thrVars)
    \/ (Unwind /\ UNCHANGED thrVars)
    \/ (Catch /\ UNCHANGED thrVars)
    \/ (AsTask /\ UNCHANGED thrVars)
    \/ (TaskCall /\ UNCHANGED thrVars)
    \/ (DecoratorCall /\ UNCHANGED thrVars)

Spec == Init /\ [][Next]_vars

----------------------------------------------------------------------------
(* Two threads that build tasks at once.  Every step is run twice, side by *)
(* side: on a context whose overlay stack the threads share (tctx), and on *)
(* a context with one overlay stack per thread (lctx).  A step is one      *)
(* whole call; a finer interleaving adds behaviours to the shared run and  *)
(* none to the other, where no thread reads another's stack.               *)

ThreadName(t) == IF t = 1 THEN <<"a">> ELSE <<"b">>
ThreadTag(t) == IF t = 1 THEN "x" ELSE "y"

LocalRefs == UNION {Refs(lctx.ctx[t]) : t \in Threads}

TFrame(t, kind, name, append, args) ==
    [kind |-> kind, name |-> name, append |-> append, tags |-> Range(args),
     shared |-> View(tctx.ctx, tctx.heap),
     local |-> View(lctx.ctx[t], lctx.heap)]

InitThreads ==
    /\ ctx = << >>
    /\ heap = [i \in Ids |-> {}]
    /\ scopes = << >>
    /\ nodes = << >>
    /\ exc = "none"
    /\ decorator = NoDecorator
    /\ last = NoCall("init")
    /\ ThreadsIdle

TGroupEnter(t) ==
    \E append \in BOOLEAN :
        /\ Len(tscopes[t]) < MaxDepth
        /\ tctx' = [tctx EXCEPT !.ctx = group_enter(@, ThreadName(t), append)]
        /\ lctx' = [lctx EXCEPT
                      !.ctx[t] = group_enter(@, ThreadName(t), append)]
        /\ tscopes' = [tscopes EXCEPT ![t] =
                         Append(@, TFrame(t, "group", ThreadName(t), append, << >>))]
        /\ tlast' = TCall(t, "group", TRUE, TRUE)
        /\ UNCHANGED tnodes

TTagsEnter(t) ==
    LET args == <<ThreadTag(t)>>
        s == tags_enter(tctx.heap, tctx.ctx, args,
                        Min(TIds \ Refs(tctx.ctx)))
        l == tags_enter(lctx.heap, lctx.ctx[t], args,
                        Min(TIds \ LocalRefs))
    IN  /\ Len(tscopes[t]) < MaxDepth
        /\ tctx' = [ctx |-> s.ctx, heap |-> s.heap]
        /\ lctx' = [ctx |-> [lctx.ctx EXCEPT ![t] = l.ctx], heap |-> l.heap]
        /\ tscopes' = [tscopes EXCEPT ![t] =
                         Append(@, TFrame(t, "tags", << >>, FALSE, args))]
        /\ tlast' = TCall(t, "tags", TRUE, TRUE)
        /\ UNCHANGED tnodes

(* The block of thread t's innermost scope completes. *)
TScopeExit(t) ==
    LET top == tscopes[t][Len(tscopes[t])]
        sc == IF top.kind = "group" THEN group_exit(tctx.ctx, "normal")
                                    ELSE tags_exit(tctx.ctx, "normal")
        lc == IF top.kind = "group" THEN group_exit(lctx.ctx[t], "normal")
                                    ELSE tags_exit(lctx.ctx[t], "normal")
        lcs == [lctx.ctx EXCEPT ![t] = lc]
        sh == Collect(tctx.heap, Refs(sc))
        lh == Collect(lctx.heap, UNION {Refs(lcs[u]) : u \in Threads})
    IN  /\ tscopes[t] # << >>
        /\ tctx' = [ctx |-> sc, heap |-> sh]
        /\ lctx' = [ctx |-> lcs, heap |-> lh]
        /\ tscopes' = [tscopes EXCEPT ![t] = SubSeq(@, 1, Len(@) - 1)]
        /\ tlast' = TCall(t, "exit", View(sc, sh) = top.shared,
                          View(lc, lh) = top.local)
        /\ UNCHANGED tnodes

(* Thread t constructs a task (as_task of a constant). *)
TAsTask(t) ==
    LET x == NoValue
        s == Task(as_task_branch(x), x, {}, tctx.ctx, Min(TIds \ Refs(tctx.ctx)))
        l == Task(as_task_branch(x), x, {}, lctx.ctx[t], Min(TIds \ LocalRefs))
    IN  /\ Len(tnodes) < MaxNodes
        /\ tnodes' = Append(tnodes,
                        [thread |-> t,
                         shared |-> [group |-> s.group, tags |-> tctx.heap[s.tags]],
                         local  |-> [group |-> l.group, tags |-> lctx.heap[l.tags]]])
        /\ tlast' = TCall(t, "as_task", TRUE, TRUE)
        /\ UNCHANGED <<tctx, lctx, tscopes>>

(* Thread t makes one more call. *)
Calls(t) ==
    /\ tcalls[t] < MaxCalls
    /\ tcalls' = [tcalls EXCEPT ![t] = @ + 1]

NextThreads ==
    \/ \E t \in Threads : TGroupEnter(t) /\ Calls(t) /\ UNCHANGED seqVars
    \/ \E t \in Threads : TTagsEnter(t) /\ Calls(t) /\ UNCHANGED seqVars
    \/ \E t \in Threads : TScopeExit(t) /\ Calls(t) /\ UNCHANGED seqVars
    \/ \E t \in Threads : TAsTask(t) /\ Calls(t) /\ UNCHANGED seqVars

SpecThreads == InitThreads /\ [][NextThreads]_vars

----------------------------------------------------------------------------
(* Properties of the single-threaded program *)

Here == View(ctx, heap)

(* The view inside the i-th open scope: what the next scope saw at its     *)
(* entry, or the current view for the innermost.                           *)
Inside(i) == IF i = Len(scopes) THEN Here ELSE scopes[i + 1].entry

(* The group that a stack of scopes makes active, from their arguments. *)
RECURSIVE ScopesGroup(_)
ScopesGroup(frames) ==
    IF frames = << >> THEN None
    ELSE LET f == frames[Len(frames)]
             outer == ScopesGroup(SubSeq(frames, 1, Len(frames) - 1))
         IN  IF f.kind # "group" THEN outer
             ELSE IF f.append /\ outer # None /\ outer # << >>
                  THEN outer \o <<"/">> \o f.name
                  ELSE f.name

(* The tags that a stack of scopes makes active, from their arguments. *)
ScopesTags(frames) ==
    UNION {frames[i].tags : i \in {k \in 1..Len(frames) : frames[k].kind = "tags"}}

(* C1: when a group or tags scope is left, at any nesting depth and on     *)
(* either path (its block completed, or an exception raised by the block   *)
(* or by a node constructor leaves it), the context view is the one seen   *)
(* when the scope was entered.                                             *)
C1_ScopeRestoresView ==
    [][Len(scopes') < Len(scopes)
         => View(ctx', heap') = scopes[Len(scopes)].entry]_vars

(* A constructor error has left the inner of two scopes, and the view      *)
(* restored is that of the outer scope, which differs from the empty one.  *)
C1_Witness ==
    /\ last.op = "unwind"
    /\ exc = "ctor"
    /\ Len(scopes) = 1
    /\ Here # scopes[1].entry
    /\ Here.keys # {}

(* C2: inside a tags scope the active tag set is the union of the tags     *)
(* passed and the tag set active at entry, hence a superset of the tag set *)
(* of every enclosing scope; a task constructed gets exactly the union of  *)
(* the tags of the tags scopes open at that moment.                        *)
C2_TagsAccumulate ==
    /\ \A i \in 1..Len(scopes) :
          scopes[i].kind = "tags"
            => Inside(i).tags = scopes[i].tags \cup scopes[i].entry.tags
    /\ \A i \in 1..Len(scopes) : \A j \in i..Len(scopes) :
          /\ scopes[i].entry.tags \subseteq Inside(j).tags
          /\ Inside(i).tags \subseteq Inside(j).tags
    /\ last.new # NoTask => heap[last.new.tags] = ScopesTags(scopes)

(* A task constructed inside tags("x") then tags("y") has tags {x, y}. *)
C2_Witness ==
    /\ last.new # NoTask
    /\ Len(scopes) = 2
    /\ scopes[1].kind = "tags" /\ scopes[1].tags = {"x"}
    /\ scopes[2].kind = "tags" /\ scopes[2].tags = {"y"}
    /\ heap[last.new.tags] = {"x", "y"}

(* C3: inside group(name, append=True) the active group is the group       *)
(* active at entry, "/" and name when that group is non-empty, and name    *)
(* alone when no group or the empty group is active; through a chain of    *)
(* appending scopes the active group keeps the enclosing group as prefix.  *)
C3_GroupAppend ==
    /\ \A i \in 1..Len(scopes) :
          (scopes[i].kind = "group" /\ scopes[i].append)
            => LET current == scopes[i].entry.group IN
               Inside(i).group =
                   IF current # None /\ current # << >>
                   THEN current \o <<"/">> \o scopes[i].name
                   ELSE scopes[i].name
    /\ \A i \in 1..Len(scopes) : \A j \in i..Len(scopes) :
          ( /\ \A k \in i..j : scopes[k].kind = "group" => scopes[k].append
            /\ scopes[i].entry.group # None )
            => IsPrefix(scopes[i].entry.group, Inside(j).group)

(* group("b", append=True) inside group("a") makes "a/b" active. *)
C3_Witness ==
    /\ Len(scopes) = 2
    /\ scopes[1].kind = "group" /\ scopes[1].name = <<"a">>
    /\ scopes[2].kind = "group" /\ scopes[2].name = <<"b">> /\ scopes[2].append
    /\ last.op = "group"
    /\ Here.group = <<"a", "/", "b">>

(* C4: inside group(name) without append the active group is exactly name, *)
(* whatever the enclosing scopes, and a task constructed while such a      *)
(* scope is the innermost group scope has group name.                      *)
C4_GroupOverride ==
    /\ \A i \in 1..Len(scopes) :
          (scopes[i].kind = "group" /\ ~ scopes[i].append)
            => Inside(i).group = scopes[i].name
    /\ \A i \in 1..Len(scopes) :
          ( /\ last.new # NoTask
            /\ scopes[i].kind = "group" /\ ~ scopes[i].append
            /\ \A k \in (i + 1)..Len(scopes) : scopes[k].kind # "group" )
            => last.new.group = scopes[i].name

(* A task constructed inside group("a") then group("b") has group "b". *)
C4_Witness ==
    /\ last.new # NoTask
    /\ Len(scopes) = 2
    /\ scopes[1].kind = "group" /\ scopes[1].name = <<"a">> /\ ~ scopes[1].append
    /\ scopes[2].kind = "group" /\ scopes[2].name = <<"b">> /\ ~ scopes[2].append
    /\ last.new.group = <<"b">>

(* The categories of as_task in their documented order, and the first one  *)
(* a value falls in.                                                       *)
Order == <<"same", "List", "Tuple", "Set", "Dict", "FunctionTask", "Constant">>

Matches(x, category) ==
    CASE category = "same" -> x.isTask
      [] category = "List" -> x.coll = "list"
      [] category = "Tuple" -> x.coll = "tuple"
      [] category = "Set" -> x.coll = "set"
      [] category = "Dict" -> x.coll = "dict"
      [] category = "FunctionTask" -> x.callable
      [] category = "Constant" -> TRUE

FirstMatch(x) == Order[Min({i \in 1..Len(Order) : Matches(x, Order[i])})]

(* C5: every call of as_task takes the branch of the first category, in    *)
(* the documented order, that its argument falls in, and either fails      *)
(* (constructing no task) or returns exactly one task: the argument itself *)
(* for a task, and otherwise one new task of that category's type that     *)
(* holds the argument.                                                     *)
C5_AsTaskDispatch ==
    [][last'.op = "as_task"
         => LET x == last'.x
                first == FirstMatch(x)
            IN  IF first = "same"
                THEN /\ exc' = "none"
                     /\ last'.ret = x.ref
                     /\ nodes' = nodes
                ELSE \/ /\ exc' = "ctor"
                        /\ last'.ret = 0
                        /\ nodes' = nodes
                     \/ /\ exc' = "none"
                        /\ last'.new.variant = first
                        /\ last'.new.fn = x
                        /\ last'.ret = Len(nodes) + 1
                        /\ nodes' = Append(nodes, Stamps(last'.new))]_vars

(* as_task of a callable mapping has returned a Dict task. *)
C5_Witness ==
    /\ last.op = "as_task"
    /\ last.x.coll = "dict" /\ last.x.callable
    /\ last.new.variant = "Dict"
    /\ last.ret = Len(nodes)

(* C6: as_task of a task returns that task and constructs nothing, so      *)
(* as_task(as_task(x)) is as_task(x); the task keeps its group and tags    *)
(* whatever scope is active at the call.                                   *)
C6_AsTaskIdentity ==
    [][(last'.op = "as_task" /\ last'.x.isTask)
         => /\ last'.ret = last'.x.ref
            /\ last'.new = NoTask
            /\ nodes' = nodes
            /\ heap'[nodes'[last'.ret].tags] = heap[nodes[last'.ret].tags]
            /\ exc' = "none"]_vars

(* as_task was applied to a task while a scope with another group and      *)
(* other tags than the task's was active.                                  *)
C6_Witness ==
    /\ last.op = "as_task"
    /\ last.x.isTask
    /\ last.ret = last.x.ref
    /\ nodes[last.ret].group # Here.group
    /\ heap[nodes[last.ret].tags] # Here.tags

Positional(call) == call.x # NoValue

(* C7: a call of task with a function returns a FunctionTask wrapping it   *)
(* with the keyword arguments of the call (none: the defaults); a call     *)
(* with keyword arguments only constructs nothing and returns a decorator  *)
(* holding them; the decorator applied to a function returns a             *)
(* FunctionTask wrapping it with the held keyword arguments.               *)
C7_TaskDualForm ==
    /\ (last.op = "task" /\ Positional(last) /\ exc = "none")
         => /\ last.new.variant = "FunctionTask"
            /\ last.new.fn = last.x
            /\ last.new.opts = last.kw
            /\ last.ret = Len(nodes)
    /\ (last.op = "task" /\ ~ Positional(last))
         => /\ last.new = NoTask
            /\ last.ret = 0
            /\ decorator = [live |-> TRUE, kw |-> last.kw]
    /\ (last.op = "decorator" /\ Positional(last) /\ last.kw = {} /\ exc = "none")
         => /\ last.new.variant = "FunctionTask"
            /\ last.new.fn = last.x
            /\ last.new.opts = decorator.kw
            /\ last.ret = Len(nodes)

(* task(name="n")(fn) has returned a FunctionTask with the option. *)
C7_Witness ==
    /\ last.op = "decorator"
    /\ Positional(last)
    /\ last.kw = {}
    /\ last.new.variant = "FunctionTask"
    /\ last.new.opts = {<<"name", "n">>}

(* C8: a task is stamped at its construction with the group and the tag    *)
(* set active then, and no later step changes the group or the tags of a   *)
(* task already constructed.                                               *)
C8_StampsFixed ==
    [][/\ \A i \in 1..Len(nodes) :
             /\ i <= Len(nodes')
             /\ nodes'[i].group = nodes[i].group
             /\ heap'[nodes'[i].tags] = heap[nodes[i].tags]
       /\ Len(nodes') > Len(nodes)
            => /\ nodes'[Len(nodes')].group = View(ctx, heap).group
               /\ heap'[nodes'[Len(nodes')].tags] = View(ctx, heap).tags]_vars

(* A task stamped inside a group and a tags scope, after both were left. *)
C8_Witness ==
    /\ nodes # << >>
    /\ scopes = << >>
    /\ last.op = "exit"
    /\ nodes[1].group \notin {None, << >>}
    /\ heap[nodes[1].tags] # {}
    /\ Here.keys = {}

(* C10: entering or leaving a group scope leaves the active tag set as it  *)
(* is, entering or leaving a tags scope leaves the active group as it is,  *)
(* entering a tags scope changes no set object the context refers to, a    *)
(* call of as_task or task leaves the view as it is, and a task            *)
(* constructed gets the group its innermost group scope makes active and   *)
(* the union of the tags of the open tags scopes.                          *)
C10_ScopesIndependent ==
    [][LET entered == Len(scopes') > Len(scopes)
           left == Len(scopes') < Len(scopes)
           kind == IF entered THEN scopes'[Len(scopes')].kind
                   ELSE IF left THEN scopes[Len(scopes)].kind
                   ELSE "none"
           before == View(ctx, heap)
           after == View(ctx', heap')
       IN  /\ kind = "group"
                => /\ after.tags = before.tags
                   /\ ("_tags" \in after.keys) = ("_tags" \in before.keys)
           /\ kind = "tags"
                => /\ after.group = before.group
                   /\ ("_group" \in after.keys) = ("_group" \in before.keys)
           /\ (kind = "tags" /\ entered)
                => \A id \in Refs(ctx) : heap'[id] = heap[id]
           /\ last'.op \in {"as_task", "task", "decorator"}
                => after = before
           /\ last'.new # NoTask
                => /\ last'.new.group = ScopesGroup(scopes')
                   /\ heap'[last'.new.tags] = ScopesTags(scopes')]_vars

(* A task constructed in a group scope nested in a tags scope. *)
C10_Witness ==
    /\ last.new # NoTask
    /\ Len(scopes) = 2
    /\ scopes[1].kind = "tags" /\ scopes[1].tags # {}
    /\ scopes[2].kind = "group" /\ scopes[2].name # << >>
    /\ last.new.group = scopes[2].name
    /\ heap[last.new.tags] = scopes[1].tags

----------------------------------------------------------------------------
(* Properties of the two-thread runs *)

Other(t) == IF t = 1 THEN 2 ELSE 1

(* The stamps thread t's own open scopes call for. *)
OwnStamps(t) ==
    [group |-> ScopesGroup(tscopes[t]), tags |-> ScopesTags(tscopes[t])]

(* What thread t passed to the scopes it entered. *)
FromThread(stamps, t) ==
    /\ stamps.tags \subseteq {ThreadTag(t)}
    /\ stamps.group # None
         => Range(stamps.group) \subseteq Range(ThreadName(t)) \cup {"/"}

(* C9: with one overlay stack per thread, a task is stamped with exactly   *)
(* what the open scopes of the thread that constructs it call for, every   *)
(* task carries only groups and tags its own thread passed, and every      *)
(* scope exit restores the view its thread had at entry.  (That the shared *)
(* stack breaks each of these is shown by the witness.)                    *)
C9_ThreadLocalIsolates ==
    /\ tlast.op = "as_task"
         => tnodes[Len(tnodes)].local = OwnStamps(tlast.thread)
    /\ \A i \in 1..Len(tnodes) : FromThread(tnodes[i].local, tnodes[i].thread)
    /\ tlast.op = "exit" => tlast.local

(* Over the shared stack, the same run has stamped a task of one thread    *)
(* with a tag only the other thread passed, where the per-thread stacks    *)
(* stamped it from its own thread's scopes; and a scope exit has then left *)
(* a shared view that is not the one its thread had at entry, where the    *)
(* per-thread stack restored it.                                           *)
C9_Witness ==
    /\ \E i \in 1..Len(tnodes) :
          LET n == tnodes[i] IN
          /\ ThreadTag(Other(n.thread)) \in n.shared.tags
          /\ ~ FromThread(n.shared, n.thread)
          /\ FromThread(n.local, n.thread)
          /\ n.local # n.shared
    /\ tlast.op = "exit"
    /\ ~ tlast.shared
    /\ tlast.local

============================================================================
